---------------------------- MODULE Spec2Model ----------------------------
(***************************************************************************)
(* A model of est_contrast_vifs (src/vif_contrasts.py): the variance       *)
(* inflation factor of each contrast of a regression design matrix.        *)
(*                                                                         *)
(* Numbers are exact: a value is a pair <<n, d>>, the fraction n/d in      *)
(* lowest terms with d > 0, or one of the three IEEE specials              *)
(*   NaN = <<0,0>>,  +Inf = <<1,0>>,  -Inf = <<-1,0>>.                     *)
(* Rounding is not modelled.  The design-matrix columns are drawn from a   *)
(* pool whose sums of squared deviations are perfect squares, so that the  *)
(* standardisation (which takes a square root) stays rational.             *)
(***************************************************************************)
EXTENDS Integers, Sequences, FiniteSets

---------------------------------------------------------------------------
(* Floating-point values, exact.                                           *)

NaN == <<0, 0>>

Zero == <<0, 1>>

One == <<1, 1>>

Abs(x) == IF x < 0 THEN -x ELSE x

Sign(x) == IF x < 0 THEN -1 ELSE IF x = 0 THEN 0 ELSE 1

RECURSIVE GCD(_, _)
GCD(a, b) == IF b = 0 THEN a ELSE GCD(b, a % b)

Norm(n, d) ==
    IF d = 0 THEN <<Sign(n), 0>>
    ELSE LET g == GCD(Abs(n), Abs(d))
             s == Sign(d)
         IN  <<(s * n) \div g, (s * d) \div g>>

Num(k) == <<k, 1>>

IsNaN(a) == a = NaN

IsFinite(a) == a[2] # 0

\* IEEE addition: NaN is absorbing, Inf + Inf keeps its sign, Inf - Inf is NaN.
Add(a, b) ==
    IF a[2] = 0 /\ b[2] = 0
    THEN (IF a = b THEN a ELSE NaN)
    ELSE Norm(a[1] * b[2] + b[1] * a[2], a[2] * b[2])

Neg(a) == <<-a[1], a[2]>>

Sub(a, b) == Add(a, Neg(b))

\* IEEE multiplication: 0 * NaN = NaN and 0 * Inf = NaN.
Mul(a, b) == Norm(a[1] * b[1], a[2] * b[2])

\* IEEE division: 0/0 = NaN, x/0 = +-Inf, x/Inf = 0; no exception is raised.
Div(a, b) == Norm(a[1] * b[2], a[2] * b[1])

\* The exact integer square root of a perfect square.
ISqrt(n) == CHOOSE r \in 0..n : r * r = n

\* Square root of a value: NaN for NaN and for negatives.
Sqrt(a) ==
    IF a[2] = 0 THEN (IF a[1] = 1 THEN a ELSE NaN)
    ELSE IF a[1] < 0 THEN NaN
    ELSE <<ISqrt(a[1]), ISqrt(a[2])>>

RECURSIVE SumTo(_, _)
SumTo(s, n) == IF n = 0 THEN Zero ELSE Add(SumTo(s, n - 1), s[n])

SumSeq(s) == SumTo(s, Len(s))

\* The sequence <<f[1], ..., f[n]>>, each element computed once.
RECURSIVE Tabulate(_, _)
Tabulate(f, n) == IF n = 0 THEN <<>> ELSE Append(Tabulate(f, n - 1), f[n])

\* The subsequence of s at the positions where the mask is TRUE.
RECURSIVE SelectFrom(_, _, _)
SelectFrom(s, mask, i) ==
    IF i > Len(s) THEN <<>>
    ELSE (IF mask[i] THEN <<s[i]>> ELSE <<>>) \o SelectFrom(s, mask, i + 1)

Select(s, mask) == SelectFrom(s, mask, 1)

---------------------------------------------------------------------------
(* Data frames: an ordered list of column names, one value sequence per    *)
(* column, and the row index.                                              *)

Frame(cols, data, index) == [columns |-> cols, data |-> data, index |-> index]

Rows(col) == 1..Len(col)

NonMissing(col) == Select(col, [i \in Rows(col) |-> ~IsNaN(col[i])])

\* Series.nunique(): the number of distinct values, missing ones not counted.
nunique(col) == Cardinality({col[i] : i \in {r \in Rows(col) : ~IsNaN(col[r])}})

\* Series.isnull().any()
isnull_any(col) == \E i \in Rows(col) : IsNaN(col[i])

\* Series.mean(): missing values are skipped; NaN when nothing is left.
mean(col) ==
    LET v == NonMissing(col)
    IN  Div(SumSeq(v), Num(Len(v)))

\* The sum of squared deviations of the non-missing values from their mean.
SumSq(col) ==
    LET v == NonMissing(col)
        m == mean(col)
    IN  SumSeq(Tabulate([i \in 1..Len(v) |-> Mul(Sub(v[i], m), Sub(v[i], m))], Len(v)))

\* Series.var() of Series.std(): n-1 denominator over the non-missing
\* values, NaN when fewer than two are left.
var(col) ==
    LET cnt == Len(NonMissing(col))
    IN  IF cnt <= 1 THEN NaN ELSE Div(SumSq(col), Num(cnt - 1))

\* (nsamp - 1) ** 0.5 * std, the two square roots taken as one.
ScaleDivisor(col, nsamp) == Sqrt(Mul(Num(nsamp - 1), var(col)))

\* A mask that forgets the missing values: more than one distinct value.
KeepMaskDistinctOnly(col) == nunique(col) > 1

\* A mask that keeps every column that holds a value.
KeepMaskAnyValue(col) == nunique(col) >= 1 \/ isnull_any(col)

\* The mask of line 20: more than one distinct value, or any missing value.
KeepMask(col) == nunique(col) > 1 \/ isnull_any(col)

\* desmat_copy.loc[:, mask]: the masked columns, in their order.
DropConstant(df) ==
    LET mask == [j \in 1..Len(df.data) |-> KeepMask(df.data[j])]
    IN  Frame(Select(df.columns, mask), Select(df.data, mask), df.index)

\* A standardisation that centres the column and does not rescale it.
StandardizeColumnCentreOnly(col, nsamp) ==
    LET m == mean(col)
    IN  Tabulate([i \in Rows(col) |-> Sub(col[i], m)], Len(col))

StandardizeColumn(col, nsamp) ==
    LET m == mean(col)
        divisor == ScaleDivisor(col, nsamp)
    IN  Tabulate([i \in Rows(col) |-> Div(Sub(col[i], m), divisor)], Len(col))

\* (desmat_copy - desmat_copy.mean()) / ((nsamp - 1) ** 0.5 * desmat_copy.std())
Standardize(df, nsamp) ==
    Frame(df.columns,
          Tabulate([j \in 1..Len(df.data) |-> StandardizeColumn(df.data[j], nsamp)],
                   Len(df.data)),
          df.index)

---------------------------------------------------------------------------
(* Matrices: a sequence of rows.                                           *)

\* The n x n matrix of the entries e[i][j].
Matrix(e, n) == Tabulate([i \in 1..n |-> Tabulate(e[i], n)], n)

Dot(u, v) == SumSeq(Tabulate([i \in 1..Len(u) |-> Mul(u[i], v[i])], Len(u)))

\* desmat_copy.transpose() @ desmat_copy
CrossProduct(df) ==
    Matrix([i \in 1..Len(df.data) |-> [j \in 1..Len(df.data) |->
               Dot(df.data[i], df.data[j])]],
           Len(df.data))

\* np.multiply(G, np.identity(p)): entrywise, so a NaN off the diagonal stays.
DiagonalPart(G) ==
    Matrix([i \in 1..Len(G) |-> [j \in 1..Len(G) |->
               Mul(G[i][j], IF i = j THEN One ELSE Zero)]],
           Len(G))

Without(s, k) == SubSeq(s, 1, k - 1) \o SubSeq(s, k + 1, Len(s))

Minor(M, r, c) ==
    Tabulate([i \in 1..(Len(M) - 1) |-> Without(Without(M, r)[i], c)], Len(M) - 1)

RECURSIVE Det(_)
Det(M) ==
    IF Len(M) = 0 THEN One
    ELSE IF Len(M) = 1 THEN M[1][1]
    ELSE SumSeq(Tabulate(
            [j \in 1..Len(M) |->
                Mul(Mul(Num(IF j % 2 = 1 THEN 1 ELSE -1), M[1][j]), Det(Minor(M, 1, j)))],
            Len(M)))

HasNaN(M) == \E i \in 1..Len(M) : \E j \in 1..Len(M) : ~IsFinite(M[i][j])

\* The rows (and columns) of M whose diagonal entry is finite: in a cross
\* product these are the columns of the data that hold no NaN.
FiniteRows(M) == [i \in 1..Len(M) |-> IsFinite(M[i][i])]

FinitePart(M) ==
    LET rows == Select(M, FiniteRows(M))
    IN  Tabulate([i \in 1..Len(rows) |-> Select(rows[i], FiniteRows(M))], Len(rows))

\* np.linalg.inv raises LinAlgError when the factorisation meets a pivot that
\* is exactly zero.  On a matrix with NaN entries the factorisation either
\* propagates NaN, or (backend "detect") meets the zero pivot of a singular
\* finite block first.
InvRaises(M, backend) ==
    IF HasNaN(M)
    THEN backend = "detect" /\ Len(FinitePart(M)) > 0 /\ Det(FinitePart(M)) = Zero
    ELSE Len(M) > 0 /\ Det(M) = Zero

\* The value np.linalg.inv returns when it does not raise.
Inv(M) ==
    LET d == Det(M)
    IN  IF HasNaN(M) THEN Matrix([i \in 1..Len(M) |-> [j \in 1..Len(M) |-> NaN]], Len(M))
        ELSE Matrix([i \in 1..Len(M) |-> [j \in 1..Len(M) |->
                        Div(Mul(Num(IF (i + j) % 2 = 0 THEN 1 ELSE -1), Det(Minor(M, j, i))),
                            d)]],
                    Len(M))

\* c @ M @ c.transpose()
QuadForm(c, M) ==
    LET cM == Tabulate([j \in 1..Len(c) |->
                           Dot(c, Tabulate([i \in 1..Len(c) |-> M[i][j]], Len(c)))],
                       Len(c))
    IN  Dot(cM, c)

---------------------------------------------------------------------------
(* The contrast vector builder, expression_to_contrast_vector.  An         *)
(* expression is a sequence of terms <<coefficient, column name>>:         *)
(* "A - B" is << <<1, "A">>, <<-1, "B">> >>.                               *)

Range(s) == {s[i] : i \in 1..Len(s)}

Referenced(expression) == {expression[t][2] : t \in 1..Len(expression)}

\* The builder fails on a name that is not among the columns it is given.
BuilderRaises(expression, columns) == ~(Referenced(expression) \subseteq Range(columns))

RECURSIVE CoefSum(_, _)
CoefSum(expression, name) ==
    IF Len(expression) = 0 THEN 0
    ELSE CoefSum(Tail(expression), name)
         + (IF expression[1][2] = name THEN expression[1][1] ELSE 0)

expression_to_contrast_vector(expression, columns) ==
    Tabulate([j \in 1..Len(columns) |-> Num(CoefSum(expression, columns[j]))], Len(columns))

---------------------------------------------------------------------------
(* Ordered dictionaries: a sequence of <<key, value>> pairs, distinct keys. *)

Keys(d) == Tabulate([i \in 1..Len(d) |-> d[i][1]], Len(d))

\* A dictionary that puts a new key first.
DictSetFirst(d, key, value) ==
    IF key \in Range(Keys(d))
    THEN Tabulate([i \in 1..Len(d) |-> IF d[i][1] = key THEN <<key, value>> ELSE d[i]],
                  Len(d))
    ELSE <<<<key, value>>>> \o d

\* d[key] = value: replaces the value of a present key, appends a new one.
DictSet(d, key, value) ==
    IF key \in Range(Keys(d))
    THEN Tabulate([i \in 1..Len(d) |-> IF d[i][1] = key THEN <<key, value>> ELSE d[i]],
                  Len(d))
    ELSE Append(d, <<key, value>>)

\* contrasts.items(): the pairs in insertion order.
Items(d) == d

---------------------------------------------------------------------------
(* One pass of the loop body, lines 29-48, on the standardised frame X.    *)

\* A body that inverts the matrices before it asks the builder.
BodyErrorInvertFirst(X, contrast_string, backend) ==
    LET G == CrossProduct(X)
    IN  IF InvRaises(G, backend) THEN "LinAlgError"
        ELSE IF InvRaises(DiagonalPart(G), backend) THEN "LinAlgError"
        ELSE IF BuilderRaises(contrast_string, X.columns) THEN "UnknownRegressor"
        ELSE "none"

\* The exception the body raises, if any, in the order the body runs:
\* the builder, the inversion of G, the inversion of its diagonal part.
BodyError(X, contrast_string, backend) ==
    LET G == CrossProduct(X)
    IN  IF BuilderRaises(contrast_string, X.columns) THEN "UnknownRegressor"
        ELSE IF InvRaises(G, backend) THEN "LinAlgError"
        ELSE IF InvRaises(DiagonalPart(G), backend) THEN "LinAlgError"
        ELSE "none"

\* The calls of np.linalg.inv the body makes before it ends.
BodyInversions(X, contrast_string, backend) ==
    IF BuilderRaises(contrast_string, X.columns) THEN 0
    ELSE IF InvRaises(CrossProduct(X), backend) THEN 1
    ELSE 2

\* Lines 32-36, G being desmat_copy.transpose() @ desmat_copy.
true_var_contrast(G, contrast_cvec) == QuadForm(contrast_cvec, Inv(G))

\* Lines 38-47.
best_var_contrast(G, contrast_cvec) == QuadForm(contrast_cvec, Inv(DiagonalPart(G)))

\* true_var_contrast / best_var_contrast of line 48.
ContrastVif(X, contrast_string) ==
    LET contrast_cvec == expression_to_contrast_vector(contrast_string, X.columns)
        G == CrossProduct(X)
    IN  Div(true_var_contrast(G, contrast_cvec), best_var_contrast(G, contrast_cvec))

---------------------------------------------------------------------------
(* The inputs.                                                             *)

MaxCols == 2

MaxContrasts == 2

Col(ints) == [i \in 1..Len(ints) |-> Num(ints[i])]

\* Four-row columns.  A and E correlate 2/3, K is constant, M is constant
\* but for a missing value.  A design matrix may hold the same column twice:
\* two columns of correlation 1.
ColA == Col(<<1, 1, 0, 0>>)

ColE == Col(<<4, 1, 1, 0>>)

ColK == Col(<<3, 3, 3, 3>>)

ColM == <<One, One, One, NaN>>

ColumnPool == {ColA, ColE, ColK, ColM}

ColNames == <<"A", "B", "C">>

ContrastNames == <<"c1", "c2", "c3">>

Reverse(s) == [i \in 1..Len(s) |-> s[Len(s) + 1 - i]]

SeqsUpTo(S, n) == UNION {[1..k -> S] : k \in 0..n}

\* The first names of a list, in its order or reversed.
NameOrders(names, k) == {SubSeq(names, 1, k), Reverse(SubSeq(names, 1, k))}

\* The design matrices of at most MaxCols columns of a pool, the columns
\* named A, B, ... from the left or from the right.
DesignMatricesOf(pool) ==
    {Frame(cols, data, Rows(ColA)) :
        <<cols, data>> \in UNION {NameOrders(ColNames, Len(d)) \X {d} :
                                    d \in SeqsUpTo(pool, MaxCols)}}

DesignMatrices == DesignMatricesOf(ColumnPool)

\* "A", "C", "A - B" and "A - A".  C names no column of a matrix of two
\* columns; B names none of a matrix of one, or when B was dropped.
ExpressionPool ==
    { << <<1, "A">> >>,
      << <<1, "C">> >>,
      << <<1, "A">>, <<-1, "B">> >>,
      << <<1, "A">>, <<-1, "A">> >> }

\* The contrast dictionaries of at most MaxContrasts expressions of a pool.
\* The names are supplied last name first, an order that is not the sorted one.
ContrastMapsOf(pool) ==
    {[i \in 1..Len(e) |-> <<Reverse(SubSeq(ContrastNames, 1, Len(e)))[i], e[i]>>] :
        e \in SeqsUpTo(pool, MaxContrasts)}

ContrastMaps == ContrastMapsOf(ExpressionPool)

\* The expressions of the claims that compare two calls: "A" and "A - B".
ComparedExpressionPool ==
    { << <<1, "A">> >>,
      << <<1, "A">>, <<-1, "B">> >> }

\* What the linear-algebra backend does with a NaN in the matrix.
Backends == {"propagate", "detect"}

EmptyFrame == Frame(<<>>, <<>>, {})

---------------------------------------------------------------------------
(* The call est_contrast_vifs(desmat, contrasts), statement by statement.  *)

VARIABLES desmat, contrasts, pc, desmat_copy, nsamp, vifs_contrasts,
          done, outcome, returned, ninv, builder_calls

vars == <<desmat, contrasts, pc, desmat_copy, nsamp, vifs_contrasts,
          done, outcome, returned, ninv, builder_calls>>

InitOf(matrices, maps) ==
    /\ desmat \in matrices
    /\ contrasts \in maps
    /\ pc = "copy"
    /\ desmat_copy = EmptyFrame
    /\ nsamp = 0
    /\ vifs_contrasts = <<>>
    /\ done = 0
    /\ outcome = "running"
    /\ returned = <<>>
    /\ ninv = 0
    /\ builder_calls = <<>>

\* Lines 17-21: copy the frame and drop the constant columns.
RemoveConstant ==
    /\ pc = "copy"
    /\ desmat_copy' = DropConstant(desmat)
    /\ pc' = "scale"
    /\ UNCHANGED <<desmat, contrasts, nsamp, vifs_contrasts, done,
                   outcome, returned, ninv, builder_calls>>

\* Lines 23-27: standardise the columns, start with an empty dictionary.
Scale ==
    /\ pc = "scale"
    /\ nsamp' = Cardinality(desmat_copy.index)
    /\ desmat_copy' = Standardize(desmat_copy, Cardinality(desmat_copy.index))
    /\ vifs_contrasts' = <<>>
    /\ pc' = "loop"
    /\ UNCHANGED <<desmat, contrasts, done, outcome, returned, ninv,
                   builder_calls>>

\* Lines 28-48, a pass of the loop that raises: the exception leaves the call.
IterationRaises ==
    /\ pc = "loop"
    /\ done < Len(Items(contrasts))
    /\ \E backend \in Backends :
         LET contrast_string == Items(contrasts)[done + 1][2]
             raised == BodyError(desmat_copy, contrast_string, backend)
         IN  /\ raised # "none"
             /\ outcome' = raised
             /\ ninv' = ninv + BodyInversions(desmat_copy, contrast_string, backend)
    /\ builder_calls' = Append(builder_calls, desmat_copy.columns)
    /\ pc' = "raised"
    /\ UNCHANGED <<desmat, contrasts, desmat_copy, nsamp, vifs_contrasts,
                   done, returned>>

\* Lines 28-48, a pass of the loop that stores the contrast's VIF.
Iteration ==
    /\ pc = "loop"
    /\ done < Len(Items(contrasts))
    /\ \E backend \in Backends :
         LET contrast_name == Items(contrasts)[done + 1][1]
             contrast_string == Items(contrasts)[done + 1][2]
         IN  /\ BodyError(desmat_copy, contrast_string, backend) = "none"
             /\ vifs_contrasts' = DictSet(vifs_contrasts, contrast_name,
                                          ContrastVif(desmat_copy, contrast_string))
             /\ ninv' = ninv + BodyInversions(desmat_copy, contrast_string, backend)
    /\ builder_calls' = Append(builder_calls, desmat_copy.columns)
    /\ done' = done + 1
    /\ UNCHANGED <<desmat, contrasts, pc, desmat_copy, nsamp, outcome,
                   returned>>

\* Line 49: the loop is over, return the dictionary.
Return ==
    /\ pc = "loop"
    /\ done = Len(Items(contrasts))
    /\ returned' = vifs_contrasts
    /\ outcome' = "returned"
    /\ pc' = "done"
    /\ UNCHANGED <<desmat, contrasts, desmat_copy, nsamp, vifs_contrasts,
                   done, ninv, builder_calls>>

Next == RemoveConstant \/ Scale \/ IterationRaises \/ Iteration \/ Return

Init == InitOf(DesignMatrices, ContrastMaps)

Spec == Init /\ [][Next]_vars

\* The call on the smaller inputs.
InitCompared ==
    InitOf(DesignMatrices, ContrastMapsOf(ComparedExpressionPool))

SpecCompared == InitCompared /\ [][Next]_vars

---------------------------------------------------------------------------
(* The call as a function of its inputs: what the steps above compute.     *)

\* The for loop of lines 28-48 over the remaining items.
RECURSIVE Loop(_, _, _, _)
Loop(X, items, acc, be) ==
    IF Len(items) = 0 THEN [outcome |-> "returned", value |-> acc]
    ELSE IF BodyError(X, items[1][2], be) # "none"
    THEN [outcome |-> BodyError(X, items[1][2], be), value |-> <<>>]
    ELSE Loop(X, Tail(items), DictSet(acc, items[1][1], ContrastVif(X, items[1][2])), be)

est_contrast_vifs(df, cs, be) ==
    Loop(Standardize(DropConstant(df), Cardinality(df.index)), Items(cs), <<>>, be)

\* The results the call can have, one per backend.
Results(df, cs) == {est_contrast_vifs(df, cs, be) : be \in Backends}

Ended == pc \in {"done", "raised"}

\* What the call of this behaviour has produced.
Result == [outcome |-> outcome, value |-> returned]

\* The design matrix with column j multiplied by k.
ScaleColumn(df, j, k) ==
    Frame(df.columns,
          Tabulate([c \in 1..Len(df.data) |->
                       IF c = j
                       THEN Tabulate([r \in Rows(df.data[c]) |-> Mul(Num(k), df.data[c][r])],
                                     Len(df.data[c]))
                       ELSE df.data[c]],
                   Len(df.data)),
          df.index)

\* The design matrix with the column <<name, col>> inserted at position pos.
InsertColumn(df, pos, name, col) ==
    Frame(SubSeq(df.columns, 1, pos - 1) \o <<name>> \o SubSeq(df.columns, pos, Len(df.columns)),
          SubSeq(df.data, 1, pos - 1) \o <<col>> \o SubSeq(df.data, pos, Len(df.data)),
          df.index)

PositiveScales == {2, 3}

NegativeScales == {-1, -2}

\* A constant column of the frame's height, no entry missing.
ConstantColumn(df, v) == Tabulate([r \in df.index |-> Num(v)], Cardinality(df.index))

ConstantValues == {0, 3}

\* The retention rule in the words of the specification.
SpecRetained(col) ==
    \/ \E i \in Rows(col) : \E j \in Rows(col) :
          ~IsNaN(col[i]) /\ ~IsNaN(col[j]) /\ col[i] # col[j]
    \/ \E i \in Rows(col) : IsNaN(col[i])

SpecRetainedColumns(df) ==
    Select(df.columns, [j \in 1..Len(df.data) |-> SpecRetained(df.data[j])])

\* The positions of the contrasts that name a column that is not retained.
BadContrasts ==
    {i \in 1..Len(contrasts) :
        ~(Referenced(contrasts[i][2]) \subseteq Range(SpecRetainedColumns(desmat)))}

FirstBad == CHOOSE i \in BadContrasts : \A j \in BadContrasts : i <= j

\* A VIF that is a number and not negative.
NonNegative(v) == IsFinite(v) /\ v[1] >= 0

---------------------------------------------------------------------------
(* The claims.                                                             *)

\* C1: a call that returns gives one entry per contrast name, in the order
\* the contrasts were supplied, whatever the columns and whatever was dropped.
C1_OrderPreserved == outcome = "returned" => Keys(returned) = Keys(contrasts)

C1_Witness ==
    /\ outcome = "returned"
    /\ Keys(returned) = <<"c2", "c1">>
    /\ desmat.columns = <<"B", "A">>
    /\ Len(desmat_copy.columns) = 1

\* C2: preprocessing keeps exactly the columns with more than one distinct
\* non-missing value or with a missing value, in their original order, and
\* that column list is what every call of the builder is given.
C2_RetentionRule ==
    pc # "copy" =>
        /\ desmat_copy.columns = SpecRetainedColumns(desmat)
        /\ \A n \in 1..Len(builder_calls) : builder_calls[n] = SpecRetainedColumns(desmat)

C2_Witness ==
    /\ Len(builder_calls) > 0
    /\ desmat.data = <<ColK, ColM>>
    /\ desmat_copy.columns = <<"B">>

\* C3 as stated: a contrast naming a column that is not retained makes the
\* call fail with the unknown-regressor error and return nothing.
C3_UnknownAlways ==
    (Ended /\ BadContrasts # {}) => (outcome = "UnknownRegressor" /\ pc = "raised")

\* C3 amended: such a call fails and returns nothing; the error is the
\* unknown-regressor error unless a contrast before the first such contrast
\* already failed on the inversion, and then it is the inversion's error.
C3_FailsAsUnit ==
    (Ended /\ BadContrasts # {}) =>
        /\ pc = "raised"
        /\ returned = <<>>
        /\ outcome \in {"UnknownRegressor", "LinAlgError"}
        /\ outcome = "LinAlgError" =>
              /\ FirstBad > 1
              /\ \E be \in Backends : InvRaises(CrossProduct(desmat_copy), be)
        /\ (\A be \in Backends : InvRaises(CrossProduct(desmat_copy), be)) /\ FirstBad > 1
              => outcome = "LinAlgError"

C3_Witness ==
    /\ pc = "raised"
    /\ outcome = "UnknownRegressor"
    /\ done = 1
    /\ Len(vifs_contrasts) = 1
    /\ returned = <<>>

\* C4: a cross-product matrix that is not invertible makes the call fail with
\* the singular-design error, for every contrasts mapping, the empty one too.
C4_SingularFails ==
    (Ended /\ Len(desmat_copy.columns) > 0 /\ ~HasNaN(CrossProduct(desmat_copy))
           /\ Det(CrossProduct(desmat_copy)) = Zero)
        => outcome = "LinAlgError"

\* C5: a retained column of zero variance makes the call end in an error; it
\* never returns a mapping.
C5_DegenerateFails ==
    (Ended /\ \E j \in 1..Len(desmat.data) :
                  KeepMask(desmat.data[j]) /\ var(desmat.data[j]) = Zero)
        => pc = "raised"

\* C6: when preprocessing drops every column the call fails, for every
\* contrasts mapping, the empty one too.
C6_NoColumnsFails == (Ended /\ Len(desmat_copy.columns) = 0) => pc = "raised"

\* C7 as stated: multiplying one column by any nonzero constant, positive or
\* negative, leaves every VIF of the call unchanged.
C7_AnyScale ==
    outcome = "returned" =>
        \A j \in 1..Len(desmat.data) : \A k \in PositiveScales \cup NegativeScales :
            Result \in Results(ScaleColumn(desmat, j, k), contrasts)

\* C7 amended: multiplying one column by any positive constant leaves every
\* VIF of the call unchanged.
C7_PositiveScale ==
    outcome = "returned" =>
        \A j \in 1..Len(desmat.data) : \A k \in PositiveScales :
            Result \in Results(ScaleColumn(desmat, j, k), contrasts)

C7_Witness ==
    /\ outcome = "returned"
    /\ desmat.data = <<ColA, ColE>>
    /\ \E n \in 1..Len(returned) : IsFinite(returned[n][2]) /\ returned[n][2] # One

\* C8: inserting a constant column with no missing entry, at any position,
\* changes neither the columns the builder is given nor any VIF, when no
\* contrast names the inserted column.
C8_ConstantColumn ==
    Ended =>
        \A pos \in 1..(Len(desmat.columns) + 1) : \A v \in ConstantValues :
            LET wider == InsertColumn(desmat, pos, "K", ConstantColumn(desmat, v))
            IN  /\ DropConstant(wider).columns = desmat_copy.columns
                /\ Result \in Results(wider, contrasts)

C8_Witness ==
    /\ outcome = "returned"
    /\ Len(desmat_copy.columns) = 2
    /\ Len(returned) = 2
    /\ \A n \in 1..Len(returned) : IsFinite(returned[n][2])

\* C9: every value of a returned mapping is a non-negative number, also for
\* an expression that yields an all-zero contrast vector.
C9_NonNegative ==
    outcome = "returned" => \A n \in 1..Len(returned) : NonNegative(returned[n][2])

\* C10: a call that returns has inverted exactly two matrices, however many
\* contrasts it was given.
C10_TwoInversions == outcome = "returned" => ninv = 2

=============================================================================
